---- MODULE Spec2Model ----
(***************************************************************************)
(* A model of the toolkit package (package toolkit, type Tools): the file  *)
(* upload path (UploadFiles, UploadFile, HandleFile, CheckFileType), the   *)
(* JSON request helpers (ReadJSON, decodeJSON, handleError), the outbound  *)
(* call PostJSONToRemote, the JSON responses (WriteJSON, ErrorJSON) and    *)
(* the helpers RandomString, Slugify and CreateDirIfNotExist.              *)
(*                                                                         *)
(* Strings whose characters matter (MIME types, file names, JSON bodies)   *)
(* are sequences of one-character strings, so that case folding, suffixes  *)
(* and scanning are computed character by character as the code does.      *)
(***************************************************************************)
EXTENDS Integers, Sequences, FiniteSets, TLC

VARIABLES
    t,              \* the Tools record: MaxFileSize, AllowedFileTypes, MaxJSONSize, AllowUnknownFields
    pc,             \* position of the one caller: "idle", "loop", "filesReturned", "returned", "panic"
    call,           \* the operation in progress and its arguments
    ret,            \* what the operation returned
    dir,            \* the upload directory on disk: "absent", "dir" or "file"
    disk,           \* the files of the upload directory: file name -> [part, bytes, whole]
    queue,          \* the file parts UploadFiles has still to range over, in iteration order
    uploadedFiles,  \* UploadFiles' local slice of descriptors
    log,            \* history: the file parts handled so far, with the outcome of each
    w,              \* the http.ResponseWriter handed to WriteJSON and ErrorJSON
    fs              \* the path handed to CreateDirIfNotExist: the state of each of its components

vars == <<t, pc, call, ret, dir, disk, queue, uploadedFiles, log, w, fs>>

\* ------------------------------------------------------------------ bounds

\* most file parts in one multipart request
MaxParts == 2
\* most bytes in one file part
MaxSize == 1
\* most characters in one JSON request body
MaxBody == 4

\* ----------------------------------------------------------------- strings

UpperChars == <<"A","B","C","D","E","F","G","H","I","J","K","L","M",
                "N","O","P","Q","R","S","T","U","V","W","X","Y","Z">>
LowerChars == <<"a","b","c","d","e","f","g","h","i","j","k","l","m",
                "n","o","p","q","r","s","t","u","v","w","x","y","z">>

\* unicode.SimpleFold restricted to the ASCII letters: the one case pair of a letter
FoldChar(c) ==
    IF \E i \in 1..Len(UpperChars) : UpperChars[i] = c
    THEN LowerChars[CHOOSE i \in 1..Len(UpperChars) : UpperChars[i] = c]
    ELSE c

\* strings.EqualFold: equal length and equal character by character under folding
EqualFold(s, u) ==
    /\ Len(s) = Len(u)
    /\ \A i \in 1..Len(s) : FoldChar(s[i]) = FoldChar(u[i])

\* the MIME types the code and http.DetectContentType name
ImageJpeg == <<"i","m","a","g","e","/","j","p","e","g">>
ImageJpg == <<"i","m","a","g","e","/","j","p","g">>
ImagePng == <<"i","m","a","g","e","/","p","n","g">>
ImageGif == <<"i","m","a","g","e","/","g","i","f">>
ApplicationPdf == <<"a","p","p","l","i","c","a","t","i","o","n","/","p","d","f">>
TextPlain == <<"t","e","x","t","/","p","l","a","i","n">>
TextPlainUtf8 == TextPlain \o <<";"," ","c","h","a","r","s","e","t","=","u","t","f","-","8">>
OctetStream == <<"a","p","p","l","i","c","a","t","i","o","n","/">>
                   \o <<"o","c","t","e","t","-","s","t","r","e","a","m">>

\* ------------------------------------------------------------ CheckFileType

\* the literal of CheckFileType, assigned to t.AllowedFileTypes when it is empty
DefaultAllowedFileTypes == <<ImageJpeg, ImageJpg, ImagePng, ImageGif, ApplicationPdf>>

\* t.AllowedFileTypes after the lazy default of CheckFileType
DefaultedTypes(allowed) ==
    IF Len(allowed) = 0 THEN DefaultAllowedFileTypes ELSE allowed

\* a faulty variant of CheckFileTypeResult: an empty allow-list allows every type
CheckFileTypeAllowAll(allowed, fileType) ==
    \/ Len(allowed) = 0
    \/ \E i \in 1..Len(allowed) : EqualFold(fileType, allowed[i])

\* CheckFileType's return value: some entry of the defaulted list folds to fileType
CheckFileTypeResult(allowed, fileType) ==
    \E i \in 1..Len(DefaultedTypes(allowed)) :
        EqualFold(fileType, DefaultedTypes(allowed)[i])

\* the type check UploadFiles makes inline in the revision of tools.go: the list
\* is defaulted first, so the "allowing all file types" branch is never taken
InlineTypeCheck(allowed, fileType) ==
    IF Len(DefaultedTypes(allowed)) > 0
    THEN \E i \in 1..Len(DefaultedTypes(allowed)) :
             EqualFold(fileType, DefaultedTypes(allowed)[i])
    ELSE TRUE

\* ------------------------------------------------------- the caller at rest

\* a Tools value as Go zeroes it
ZeroTools ==
    [MaxFileSize |-> 0, AllowedFileTypes |-> <<>>, MaxJSONSize |-> 0,
     AllowUnknownFields |-> FALSE]

EmptyDisk == [n \in {} |-> "nil"]

\* a response writer nothing has been written to: no header, no status, no body
NewRecorder ==
    [Header |-> [k \in {} |-> <<>>], Code |-> 0, Sent |-> [k \in {} |-> <<>>],
     Body |-> <<>>, calls |-> <<>>]

NoCall == [op |-> "none"]
NoRet == [kind |-> "none"]
Nil == "nil"

\* everything but the Tools record and the upload directory, before any call
AtRest ==
    /\ pc = "idle"
    /\ call = NoCall
    /\ ret = NoRet
    /\ disk = EmptyDisk
    /\ queue = <<>>
    /\ uploadedFiles = <<>>
    /\ log = <<>>
    /\ w = NewRecorder
    /\ fs = <<>>

\* ------------------------------------------- CheckFileType called directly

ImagePngUpper == <<"I","M","A","G","E","/","P","N","G">>
ImagePngMixed == <<"I","m","a","g","e","/","P","n","g">>
ImagePrefix == <<"i","m","a","g","e","/">>
ImagePngLonger == ImagePng \o <<"x">>

\* the allow-lists a caller configures in this model
AllowLists ==
    { <<>>, <<ImagePng>>, <<ImagePngUpper>>, <<ImageJpeg>>, <<ImageJpeg, ImagePng>>,
      <<TextPlain>>, <<ImagePrefix>>, <<OctetStream, TextPlainUtf8>> }

\* the types a caller asks about in this model
ProbeTypes ==
    { ImageJpeg, ImageJpg, ImagePng, ImageGif, ApplicationPdf, TextPlain, TextPlainUtf8,
      OctetStream, ImagePngUpper, ImagePngMixed, ImagePrefix, ImagePngLonger, <<>> }

InitType ==
    /\ t \in {[ZeroTools EXCEPT !.AllowedFileTypes = a] : a \in AllowLists}
    /\ dir = "dir"
    /\ AtRest

\* t.CheckFileType(fileType), called by the application (as the tests do), any
\* number of times on the same Tools
CheckFileType ==
    /\ pc \in {"idle", "returned"}
    /\ \E fileType \in ProbeTypes :
        /\ call' = [op |-> "CheckFileType", fileType |-> fileType,
                    allowed |-> t.AllowedFileTypes]
        /\ ret' = [kind |-> "bool", ok |-> CheckFileTypeResult(t.AllowedFileTypes, fileType)]
    /\ t' = [t EXCEPT !.AllowedFileTypes = DefaultedTypes(@)]
    /\ pc' = "returned"
    /\ UNCHANGED <<w, fs, dir, disk, queue, uploadedFiles, log>>

NextType == CheckFileType

SpecType == InitType /\ [][NextType]_vars

\* a string with every ASCII letter in lower case
LowerString(s) == [i \in 1..Len(s) |-> FoldChar(s[i])]

\* the five default types, as the specification lists them
FiveDefaultTypes == {ImageJpeg, ImageJpg, ImagePng, ImageGif, ApplicationPdf}

\* C6: with an empty AllowedFileTypes, CheckFileType(x) is true exactly when x is,
\* ignoring letter case, one of the five default types (an empty list never allows
\* everything); with a non-empty list, exactly when x equals, ignoring case, a
\* whole entry of the list.
C6_CheckFileType ==
    (pc = "returned" /\ call.op = "CheckFileType") =>
        ret.ok = (IF call.allowed = <<>>
                  THEN LowerString(call.fileType) \in FiveDefaultTypes
                  ELSE \E i \in 1..Len(call.allowed) :
                           LowerString(call.fileType) = LowerString(call.allowed[i]))

\* C6 witness: an empty allow-list accepted IMAGE/PNG by the default list
C6_Witness ==
    /\ pc = "returned"
    /\ call.op = "CheckFileType"
    /\ call.allowed = <<>>
    /\ call.fileType = ImagePngUpper
    /\ ret.ok

\* ------------------------------------------------ file names and RandomString

\* const randomStringSource
randomStringSource ==
    <<"a","b","c","d","e","f","g","h","i","j","k","l","m",
      "n","o","p","q","r","s","t","u","v","w","x","y","z",
      "A","B","C","D","E","F","G","H","I","J","K","L","M",
      "N","O","P","Q","R","S","T","U","V","W","X","Y","Z",
      "1","2","3","4","5","6","7","8","9","0","_","+">>

\* a faulty variant of RandomStringOf: the loop starts at the second rune and the
\* first stays the zero rune
RandomStringSkipsFirst(primes) ==
    [i \in 1..Len(primes) |->
        IF i = 1 THEN "\\x00"
        ELSE randomStringSource[(primes[i] % Len(randomStringSource)) + 1]]

\* RandomString(length) for the primes rand.Prime drew, primes[i] standing for the
\* i-th prime reduced to its low bits: s[i] = r[x%y] with y = len(r)
RandomStringOf(primes) ==
    [i \in 1..Len(primes) |->
        randomStringSource[(primes[i] % Len(randomStringSource)) + 1]]

\* the length GetNewFileName asks RandomString for
RandomNameLength == 25

\* the draws of rand.Prime this model lets one RandomString call make: the same
\* odd value at every position (a prime of 64 bits is odd)
SampleDraws(length) == {[i \in 1..length |-> r] : r \in {1, 3}}

\* filepath.Ext: the suffix from the last dot of the name, empty without a dot
Ext(name) ==
    IF \E i \in 1..Len(name) : name[i] = "."
    THEN SubSeq(name, CHOOSE i \in 1..Len(name) :
                          /\ name[i] = "."
                          /\ \A j \in (i+1)..Len(name) : name[j] # ".",
                Len(name))
    ELSE <<>>

\* a faulty variant of GetNewFileName: the extension is not carried over
GetNewFileNameNoExt(filename, renameFile, random) ==
    IF renameFile THEN random ELSE filename

\* GetNewFileName with the random string already drawn
GetNewFileName(filename, renameFile, random) ==
    IF renameFile THEN random \o Ext(filename) ELSE filename

\* ---------------------------------------------------------- upload requests

FileNameA == <<"a",".","p","n","g">>
FileNameB == <<"b">>

Fields == {"file", "doc"}
FileNames == {FileNameA, FileNameB}
SniffedTypes == {ImagePng, TextPlainUtf8}

\* a file part of a multipart request: the form field it came under, its client
\* file name, what http.DetectContentType makes of its first 512 bytes, and its
\* length in bytes. In this model a part is empty (its type is never looked at:
\* the read fails first), one byte of text, or a PNG of 1..MaxSize bytes
FileParts ==
    {p \in [field : Fields, filename : FileNames, ctype : SniffedTypes, size : 0..MaxSize] :
        p.ctype = TextPlainUtf8 <=> p.size <= (IF p.ctype = ImagePng THEN 0 ELSE 1)}

\* the file parts of a request, in the order they arrived
Requests == UNION {[1..n -> FileParts] : n \in 0..MaxParts}

\* a faulty variant of FileHeaders: the parts of a field, the last arrived first
FileHeadersNewestFirst(parts, f, i) ==
    LET idx == {j \in i..Len(parts) : parts[j].field = f}
    IN  [k \in 1..Cardinality(idx) |->
            CHOOSE j \in idx : Cardinality({m \in idx : m > j}) = k - 1]

\* r.MultipartForm.File[f]: the parts that came under field f, in arrival order
RECURSIVE FileHeaders(_, _, _)
FileHeaders(parts, f, i) ==
    IF i > Len(parts) THEN <<>>
    ELSE (IF parts[i].field = f THEN <<i>> ELSE <<>>) \o FileHeaders(parts, f, i + 1)

\* the orders in which a range over the map r.MultipartForm.File may visit its keys
KeyOrders(parts) ==
    LET keys == {parts[i].field : i \in 1..Len(parts)}
    IN  {o \in [1..Cardinality(keys) -> keys] :
            \A i, j \in 1..Cardinality(keys) : i # j => o[i] # o[j]}

\* the two nested range loops of UploadFiles, flattened: the parts in the order
\* they are handled when the map is visited in keyOrder
RECURSIVE IterationOrder(_, _, _)
IterationOrder(parts, keyOrder, k) ==
    IF k > Len(keyOrder) THEN <<>>
    ELSE FileHeaders(parts, keyOrder[k], 1) \o IterationOrder(parts, keyOrder, k + 1)

\* rename ...bool: the optional last argument
RenameFile(rename) == IF Len(rename) > 0 THEN rename[1] ELSE TRUE

\* the literal default of MaxFileSize
DefaultMaxFileSize == 1024 * 1024 * 1024

\* ------------------------------------------------------------- HandleFile

\* the names HandleFile may write the part under: GetNewFileName over the draws
NewFileNames(part, renameFile) ==
    {GetNewFileName(part.filename, renameFile, RandomStringOf(d)) :
        d \in SampleDraws(RandomNameLength)}

\* one outcome of handling part number i: the error returned (Nil for none), the
\* descriptor returned, the upload directory afterwards, and whether the type
\* check was reached (it defaults t.AllowedFileTypes)
Outcome(err, file, diskAfter, checked) ==
    [err |-> err, file |-> file, disk |-> diskAfter, checked |-> checked]

\* the outcomes of HandleFile from os.Create on, for the name chosen: os.Create
\* fails and nothing is written; or it creates (truncates) the file and io.Copy
\* fails after written bytes; or io.Copy writes the whole part
PersistOutcomes(i, part, name, dirNow, diskNow) ==
    IF dirNow # "dir"
    THEN {Outcome("create", Nil, diskNow, TRUE)}
    ELSE {Outcome("create", Nil, diskNow, TRUE)}
         \cup {Outcome("copy", Nil, (name :> [part |-> i, bytes |-> written]) @@ diskNow, TRUE) :
                 written \in 0..(part.size - 1)}
         \cup {Outcome(Nil,
                       [OriginalFileName |-> part.filename, NewFileName |-> name,
                        FileSize |-> part.size],
                       (name :> [part |-> i, bytes |-> part.size]) @@ diskNow, TRUE)}

\* the outcomes of HandleFile once the part is open and its first bytes are read:
\* typeOK is the result of the type check
CheckedOutcomes(i, part, typeOK, renameFile, dirNow, diskNow) ==
    IF ~typeOK
    THEN {Outcome("file type not permitted", Nil, diskNow, TRUE)}
    ELSE {Outcome("seek", Nil, diskNow, TRUE)}
         \cup UNION {PersistOutcomes(i, part, name, dirNow, diskNow) :
                        name \in NewFileNames(part, renameFile)}

\* the outcomes of HandleFile before the type check: fileHeader.Open fails; or
\* infile.Read fails, which it does with io.EOF on a part of no bytes
ReadOutcomes(part, diskNow) ==
    {Outcome("open", Nil, diskNow, FALSE),
     Outcome(IF part.size = 0 THEN "EOF" ELSE "read", Nil, diskNow, FALSE)}

\* a faulty variant of HandleFile: the output file is created before the type is checked
HandleFileCreateFirst(i, part, allowed, renameFile, dirNow, diskNow) ==
    ReadOutcomes(part, diskNow)
    \cup (IF part.size = 0 THEN {}
          ELSE IF CheckFileTypeResult(allowed, part.ctype)
          THEN CheckedOutcomes(i, part, TRUE, renameFile, dirNow, diskNow)
          ELSE {Outcome("file type not permitted", Nil,
                        (name :> [part |-> i, bytes |-> 0]) @@ diskNow, TRUE) :
                    name \in NewFileNames(part, renameFile)})

\* t.HandleFile(fileHeader, uploadDir, renameFile) on part number i
HandleFile(i, part, allowed, renameFile, dirNow, diskNow) ==
    ReadOutcomes(part, diskNow)
    \cup (IF part.size = 0 THEN {}
          ELSE CheckedOutcomes(i, part, CheckFileTypeResult(allowed, part.ctype),
                               renameFile, dirNow, diskNow))

\* the body of the closure UploadFiles calls per part in the revision of tools.go
InlineHandle(i, part, allowed, renameFile, dirNow, diskNow) ==
    ReadOutcomes(part, diskNow)
    \cup (IF part.size = 0 THEN {}
          ELSE CheckedOutcomes(i, part, InlineTypeCheck(allowed, part.ctype),
                               renameFile, dirNow, diskNow))

\* ------------------------------------------------- UploadFiles and UploadFile

\* the allow-lists the uploading application configures in this model
UploadAllowLists == { <<>>, <<TextPlainUtf8>> }

InitUpload ==
    /\ t \in {[ZeroTools EXCEPT !.AllowedFileTypes = a] : a \in UploadAllowLists}
    /\ dir \in {"absent", "dir", "file"}
    /\ AtRest

\* where control goes when UploadFiles returns: to UploadFile when it made the call
AfterUploadFiles == IF call.op = "UploadFile" THEN "filesReturned" ELSE "returned"

\* UploadFiles up to its loop, called directly or by UploadFile (which passes its
\* own renameFile on): the rename default, the MaxFileSize default,
\* CreateDirIfNotExist and ParseMultipartForm. revision names the text of the
\* function: "HandleFile" (the loop calls t.HandleFile) or "inline" (tools.go)
\* (rename is left out, or false, or, on requests of at most one part, true)
UploadFilesBegin ==
    /\ pc = "idle"
    /\ \E op \in {"UploadFiles", "UploadFile"}, revision \in {"HandleFile", "inline"},
          parts \in Requests, mkdirOK \in BOOLEAN, parseOK \in BOOLEAN :
        \E keyOrder \in KeyOrders(parts),
           rename \in {<<>>, <<FALSE>>} \cup {r \in {<<TRUE>>} : Len(parts) <= 1} :
            /\ call' = [op |-> op, revision |-> revision, parts |-> parts,
                        rename |-> rename, renameFile |-> RenameFile(rename),
                        order |-> IterationOrder(parts, keyOrder, 1)]
            /\ t' = [t EXCEPT !.MaxFileSize = IF @ = 0 THEN DefaultMaxFileSize ELSE @]
            /\ IF dir = "absent" /\ ~mkdirOK
               THEN /\ ret' = [kind |-> "files", files |-> <<>>, err |-> "mkdir"]
                    /\ pc' = IF op = "UploadFile" THEN "filesReturned" ELSE "returned"
                    /\ UNCHANGED <<dir, queue>>
               ELSE /\ dir' = IF dir = "absent" THEN "dir" ELSE dir
                    /\ IF ~parseOK
                       THEN /\ ret' = [kind |-> "files", files |-> <<>>,
                                       err |-> "the uploaded file is too big"]
                            /\ pc' = IF op = "UploadFile" THEN "filesReturned" ELSE "returned"
                            /\ UNCHANGED queue
                       ELSE /\ queue' = IterationOrder(parts, keyOrder, 1)
                            /\ pc' = "loop"
                            /\ UNCHANGED ret
    /\ UNCHANGED <<w, fs, disk, uploadedFiles, log>>

\* one iteration of the loop of UploadFiles in the revision that calls HandleFile:
\* on an error it returns the slice as it stands, else it appends the descriptor
HandleFileStep ==
    /\ pc = "loop"
    /\ queue # <<>>
    /\ call.revision = "HandleFile"
    /\ \E o \in HandleFile(Head(queue), call.parts[Head(queue)], t.AllowedFileTypes,
                           call.renameFile, dir, disk) :
        /\ t' = IF o.checked THEN [t EXCEPT !.AllowedFileTypes = DefaultedTypes(@)] ELSE t
        /\ disk' = o.disk
        /\ log' = Append(log, [part |-> Head(queue), err |-> o.err])
        /\ IF o.err # Nil
           THEN /\ ret' = [kind |-> "files", files |-> uploadedFiles, err |-> o.err]
                /\ pc' = AfterUploadFiles
                /\ UNCHANGED <<queue, uploadedFiles>>
           ELSE /\ uploadedFiles' = Append(uploadedFiles, o.file)
                /\ queue' = Tail(queue)
                /\ UNCHANGED <<pc, ret>>
    /\ UNCHANGED <<w, fs, call, dir>>

\* one iteration of the loop of UploadFiles in the revision of tools.go: the
\* closure's two results are assigned to uploadedFiles and err, and on an error
\* the closure has returned nil for the slice
InlineStep ==
    /\ pc = "loop"
    /\ queue # <<>>
    /\ call.revision = "inline"
    /\ \E o \in InlineHandle(Head(queue), call.parts[Head(queue)], t.AllowedFileTypes,
                             call.renameFile, dir, disk) :
        /\ t' = IF o.checked THEN [t EXCEPT !.AllowedFileTypes = DefaultedTypes(@)] ELSE t
        /\ disk' = o.disk
        /\ log' = Append(log, [part |-> Head(queue), err |-> o.err])
        /\ IF o.err # Nil
           THEN /\ uploadedFiles' = <<>>
                /\ ret' = [kind |-> "files", files |-> <<>>, err |-> o.err]
                /\ pc' = AfterUploadFiles
                /\ UNCHANGED queue
           ELSE /\ uploadedFiles' = Append(uploadedFiles, o.file)
                /\ queue' = Tail(queue)
                /\ UNCHANGED <<pc, ret>>
    /\ UNCHANGED <<w, fs, call, dir>>

\* the loop of UploadFiles has ranged over every part: return uploadedFiles, nil
UploadFilesEnd ==
    /\ pc = "loop"
    /\ queue = <<>>
    /\ ret' = [kind |-> "files", files |-> uploadedFiles, err |-> Nil]
    /\ pc' = AfterUploadFiles
    /\ UNCHANGED <<w, fs, t, call, dir, disk, queue, uploadedFiles, log>>

\* UploadFile after its call of UploadFiles: nil and the error, or files[0], which
\* panics (index out of range) when files is empty
UploadFileReturn ==
    /\ pc = "filesReturned"
    /\ IF ret.err # Nil
       THEN /\ ret' = [kind |-> "file", file |-> Nil, err |-> ret.err, files |-> ret.files]
            /\ pc' = "returned"
       ELSE IF Len(ret.files) = 0
       THEN /\ ret' = [kind |-> "panic", file |-> Nil, err |-> Nil, files |-> ret.files]
            /\ pc' = "panic"
       ELSE /\ ret' = [kind |-> "file", file |-> ret.files[1], err |-> Nil,
                       files |-> ret.files]
            /\ pc' = "returned"
    /\ UNCHANGED <<w, fs, t, call, dir, disk, queue, uploadedFiles, log>>

NextUpload ==
    \/ UploadFilesBegin
    \/ HandleFileStep
    \/ InlineStep
    \/ UploadFilesEnd
    \/ UploadFileReturn

SpecUpload == InitUpload /\ [][NextUpload]_vars

\* --------------------------------------------------- claims on the upload path

\* UploadFiles has returned to its caller (the application, or UploadFile)
UploadFilesReturned ==
    /\ call.op \in {"UploadFiles", "UploadFile"}
    /\ pc \in {"returned", "filesReturned"}
    /\ ret.kind = "files"

\* UploadFiles has returned the error of the part it handled last
FailedOnPart ==
    /\ UploadFilesReturned
    /\ log # <<>>
    /\ log[Len(log)].err # Nil

\* the descriptor of part number i of the request, whatever name it was written under
DescribesPart(file, i) ==
    /\ file.OriginalFileName = call.parts[i].filename
    /\ file.FileSize = call.parts[i].size

\* what C1 says of a failed batch: the error is the failing part's, the list holds
\* the descriptors of exactly the parts handled before it, and the parts handled
\* are the failing part and the ones before it in the order of the loop
PartialResult ==
    /\ ret.err = log[Len(log)].err
    /\ Len(ret.files) = Len(log) - 1
    /\ \A j \in 1..(Len(log) - 1) :
        /\ log[j].err = Nil
        /\ j <= Len(ret.files) /\ DescribesPart(ret.files[j], log[j].part)
    /\ \A j \in 1..Len(log) : log[j].part = call.order[j]

\* C1: when part k (in the order of the loop) is the first to fail, UploadFiles
\* returns that error together with the descriptors of exactly the k-1 parts
\* persisted before it, and handles no part after k.
C1_FirstErrorPartial == FailedOnPart => PartialResult

\* C1, for the revision of UploadFiles whose loop calls HandleFile alone: there the
\* partial list is returned
C1_HandleFileRevision ==
    (FailedOnPart /\ call.revision = "HandleFile") => PartialResult

\* C2: UploadFile ends by returning the first descriptor of the batch with a nil
\* error, or a nil descriptor with the error of UploadFiles; it never panics,
\* whatever the number of file parts, zero included.
C2_UploadFileReturns ==
    (call.op = "UploadFile" /\ pc \in {"returned", "panic"}) =>
        /\ pc = "returned"
        /\ ret.kind = "file"
        /\ \/ ret.err = Nil /\ Len(ret.files) > 0 /\ ret.file = ret.files[1]
           \/ ret.err # Nil /\ ret.file = Nil

InAllowList(allowed, x) ==
    IF allowed = <<>>
    THEN LowerString(x) \in FiveDefaultTypes
    ELSE \E i \in 1..Len(allowed) : LowerString(x) = LowerString(allowed[i])

\* a step that handles one more part, the log entry it adds, and that part
HandlesPart == Len(log') = Len(log) + 1
Handled == log'[Len(log')]

\* C4: when a part's sniffed type is not in the allow-list and the part was opened
\* and read, the upload fails with "file type not permitted"; handling that part
\* creates or overwrites no file, and leaves every file written before as it was.
C4_NotPermittedNoFile ==
    [][(/\ HandlesPart
        /\ ~InAllowList(t.AllowedFileTypes, call.parts[Handled.part].ctype)
        /\ Handled.err \notin {"open", "read", "EOF"})
       => (/\ Handled.err = "file type not permitted"
           /\ ret'.err = "file type not permitted"
           /\ pc' \in {"returned", "filesReturned"}
           /\ disk' = disk)]_vars

\* C4 witness: a part refused for its type after another was persisted, whose file
\* is on disk whole
C4_Witness ==
    /\ Len(log) = 2
    /\ log[1].err = Nil
    /\ log[2].err = "file type not permitted"
    /\ UploadFilesReturned
    /\ \E n \in DOMAIN disk : disk[n] = [part |-> log[1].part, bytes |-> call.parts[log[1].part].size]

\* C5: when persisting a part fails at the creation of the output file or during
\* the copy, the upload returns that error, no file is left for the failing part
\* and the files persisted earlier are untouched.
C5_NoPartialFile ==
    [][(HandlesPart /\ Handled.err \in {"create", "copy"})
       => (ret'.err = Handled.err /\ disk' = disk)]_vars


\* the file part whose handling the k-th entry of log records
PartOf(k) == call.parts[log[k].part]

\* C16: the name a part is written under is, when rename is true or the rename
\* argument is omitted, a random string of 25 characters followed by the
\* extension of the original file name (25 plus the length of the extension in
\* all), and when rename is false the original file name exactly; the
\* descriptor's OriginalFileName is the client's file name, and its NewFileName
\* is the name of the file created in the upload directory.
C16_NewFileName ==
    (call.op \in {"UploadFiles", "UploadFile"}) =>
        \A k \in DOMAIN uploadedFiles :
            LET file == uploadedFiles[k]
                name == file.NewFileName
                original == PartOf(k).filename
                ext == Ext(original)
            IN  /\ log[k].err = Nil
                /\ file.OriginalFileName = original
                /\ IF call.rename = <<>> \/ call.rename[1]
                   THEN /\ Len(name) = 25 + Len(ext)
                        /\ \A i \in 1..25 :
                              \E c \in DOMAIN randomStringSource : name[i] = randomStringSource[c]
                        /\ SubSeq(name, 26, Len(name)) = ext
                   ELSE name = original
                /\ name \in DOMAIN disk
                /\ k = Len(log) =>
                      disk[name] = [part |-> log[k].part, bytes |-> PartOf(k).size]

\* a part with an extension was stored under a random name, the rename argument
\* left out
C16_Witness ==
    /\ call.op \in {"UploadFiles", "UploadFile"}
    /\ call.rename = <<>>
    /\ Len(uploadedFiles) = 1
    /\ Len(log) = 1
    /\ PartOf(1).filename = FileNameA
    /\ Len(uploadedFiles[1].NewFileName) = 29
    /\ uploadedFiles[1].NewFileName \in DOMAIN disk

\* make([]byte, 512): the length of the buffer the sniff read fills
SniffLen == 512

\* C17: for a part of 0 to 511 bytes the sniff read takes the bytes there are,
\* none included, without that being an error (handling the part does not fail
\* with the end-of-file error of the read), and for a part of any size the read
\* takes nothing from the copy: the descriptor's FileSize is the part's length.
C17_ShortSniffRead ==
    (call.op \in {"UploadFiles", "UploadFile"}) =>
        /\ \A k \in DOMAIN log :
              PartOf(k).size < SniffLen => log[k].err # "EOF"
        /\ \A k \in DOMAIN uploadedFiles :
              uploadedFiles[k].FileSize = PartOf(k).size

\* C17, what the code does: a part with at least one byte is never refused for
\* the end of file, and every descriptor carries the part's full length
C17_NonEmptyParts ==
    (call.op \in {"UploadFiles", "UploadFile"}) =>
        /\ \A k \in DOMAIN log :
              log[k].err = "EOF" => PartOf(k).size = 0
        /\ \A k \in DOMAIN uploadedFiles :
              uploadedFiles[k].FileSize = PartOf(k).size

\* ------------------------------------------------------------ Go error values

\* an error value: its dynamic type, the text Error() starts with, and the field
\* name and offset the type carries (or, of a formatted error, its arguments)
Err(type, text, field, offset) ==
    [type |-> type, text |-> text, Field |-> field, Offset |-> offset]

NoError == Err("nil", "", "", 0)
SyntaxError(offset) == Err("SyntaxError", "invalid character", "", offset)
UnmarshalTypeError(field, offset) ==
    Err("UnmarshalTypeError", "json: cannot unmarshal", field, offset)
InvalidUnmarshalError == Err("InvalidUnmarshalError", "json: Unmarshal(non-pointer)", "", 0)
ErrUnexpectedEOF == Err("ErrUnexpectedEOF", "unexpected EOF", "", 0)
EOF == Err("EOF", "EOF", "", 0)
UnknownFieldError(name) == Err("errorString", "json: unknown field", name, 0)
MaxBytesError == Err("MaxBytesError", "http: request body too large", "", 0)
\* errors.New(text), and fmt.Errorf(text, arg) with its one argument: a string or
\* an integer
ErrorsNew(text) == Err("errorString", text, "", 0)
Errorf(text, str, int) == Err("errorString", text, str, int)

SinglePayloadError == ErrorsNew("body must only contain a single JSON payload")

\* ------------------------------------------------ the request body as a stream

\* The characters of a request body in this model. "{" and "}" open and close a
\* JSON object, " " is white space, "s" is a JSON string literal (a whole value,
\* of the wrong type for a struct), "x" is a character no JSON text holds; inside
\* an object "t" is a member "name": 1 (the wrong type for the target's Name
\* field) and "u" is a member "age": 15 (a field the target does not have).
BodyChars == {"{", "}", " ", "s", "x", "t", "u"}
MemberChars == {"t", "u"}

\* the bodies of this model: up to MaxBody characters, members inside objects only
Bodies ==
    {b \in UNION {[1..n -> BodyChars] : n \in 0..MaxBody} :
        \A i \in 1..Len(b) :
            b[i] \in MemberChars =>
                \E j \in 1..(i - 1) : b[j] = "{" /\ \A k \in (j + 1)..(i - 1) : b[k] # "}"}

\* the literal default of maxBytes in ReadJSON
DefaultMaxJSONSize == 1024 * 10243

\* a faulty variant of MaxBytes: the default taken for ten mebibytes
MaxBytesTenMiB(maxJSONSize) ==
    IF maxJSONSize # 0 THEN maxJSONSize ELSE 1024 * 1024 * 10

\* maxBytes of ReadJSON
MaxBytes(maxJSONSize) ==
    IF maxJSONSize # 0 THEN maxJSONSize ELSE DefaultMaxJSONSize

\* http.MaxBytesReader(nil, r.Body, maxBytes): the bytes the decoder can read, and
\* how the stream ends: with io.EOF, or with the body-too-large error when the
\* body is longer than maxBytes
LimitedBody(body, maxBytes) ==
    IF Len(body) > maxBytes
    THEN [data |-> SubSeq(body, 1, maxBytes), end |-> MaxBytesError]
    ELSE [data |-> body, end |-> EOF]

\* -------------------------------------------------------- json.Decoder.Decode

\* the first index from pos on that holds no white space, Len(data) + 1 if none
FirstNonSpace(data, pos) ==
    IF \E i \in pos..Len(data) : data[i] # " "
    THEN CHOOSE i \in pos..Len(data) :
             data[i] # " " /\ \A k \in pos..(i - 1) : data[k] = " "
    ELSE Len(data) + 1

\* the first index after the "{" at i that holds neither white space nor a member
ObjectStop(data, i) ==
    IF \E j \in (i + 1)..Len(data) : data[j] \notin MemberChars \cup {" "}
    THEN CHOOSE j \in (i + 1)..Len(data) :
             /\ data[j] \notin MemberChars \cup {" "}
             /\ \A k \in (i + 1)..(j - 1) : data[k] \in MemberChars \cup {" "}
    ELSE Len(data) + 1

\* Decoder.readValue from index pos of the stream: the next value's extent, or the
\* error. The buffer is scanned before a read error is looked at; at the end of
\* the data io.EOF ends a string literal, leaves an open object unexpectedly
\* ended, and is returned as it is when only white space was read; any other read
\* error is returned
ReadValue(stream, pos) ==
    LET data == stream.data
        i == FirstNonSpace(data, pos)
        j == ObjectStop(data, i)
        value(from, to) == [err |-> NoError, from |-> from, to |-> to]
        failed(e) == [err |-> e, from |-> pos, to |-> pos - 1]
    IN  IF i > Len(data) THEN failed(stream.end)
        ELSE IF data[i] = "s"
        THEN (IF i < Len(data) \/ stream.end = EOF THEN value(i, i) ELSE failed(stream.end))
        ELSE IF data[i] = "{"
        THEN (IF j > Len(data)
              THEN failed(IF stream.end = EOF THEN ErrUnexpectedEOF ELSE stream.end)
              ELSE IF data[j] = "}" THEN value(i, j) ELSE failed(SyntaxError(j)))
        ELSE failed(SyntaxError(i))

\* the error of one member of an object for the target: "data" is the caller's
\* struct with the one field Name, "empty" is the struct{}{} of decodeJSON
MemberError(c, at, target, disallowUnknown) ==
    IF c = "t" /\ target = "data" THEN UnmarshalTypeError("name", at)
    ELSE IF c \in MemberChars /\ disallowUnknown
    THEN UnknownFieldError(IF c = "t" THEN "name" ELSE "age")
    ELSE NoError

\* decodeState.unmarshal of the value data[from..to]: a target that is no pointer
\* is refused; a string literal is the wrong type for a struct; of an object the
\* first member error is the one saved and returned
Unmarshal(data, from, to, target, disallowUnknown) ==
    LET bad == {k \in from..to :
                   MemberError(data[k], k, target, disallowUnknown) # NoError}
    IN  IF target = "nonpointer" THEN InvalidUnmarshalError
        ELSE IF data[from] = "s" THEN UnmarshalTypeError("", from)
        ELSE IF bad = {} THEN NoError
        ELSE MemberError(data[CHOOSE k \in bad : \A m \in bad : k <= m],
                         CHOOSE k \in bad : \A m \in bad : k <= m,
                         target, disallowUnknown)

\* decoder.Decode(v) from index pos: the error, and the index after what was read
Decode(stream, pos, target, disallowUnknown) ==
    LET v == ReadValue(stream, pos)
    IN  IF v.err # NoError THEN [err |-> v.err, pos |-> pos]
        ELSE [err |-> Unmarshal(stream.data, v.from, v.to, target, disallowUnknown),
              pos |-> v.to + 1]

\* a faulty variant of decodeJSON: the second Decode is checked for an error, not for
\* io.EOF
decodeJSONOnlyErrors(stream, target, allowUnknownFields) ==
    LET first == Decode(stream, 1, target, ~allowUnknownFields)
        second == Decode(stream, first.pos, "empty", ~allowUnknownFields)
    IN  IF first.err # NoError THEN first.err
        ELSE IF second.err # NoError /\ second.err # EOF THEN SinglePayloadError
        ELSE NoError

\* t.decodeJSON(r, data)
decodeJSON(stream, target, allowUnknownFields) ==
    LET first == Decode(stream, 1, target, ~allowUnknownFields)
        second == Decode(stream, first.pos, "empty", ~allowUnknownFields)
    IN  IF first.err # NoError THEN first.err
        ELSE IF second.err # EOF THEN SinglePayloadError
        ELSE NoError

\* t.handleError(err, maxBytes): the switch, case by case in its order
handleError(err, maxBytes) ==
    IF err.type = "SyntaxError"
    THEN Errorf("body contains badly formed JSON at character %d", "", err.Offset)
    ELSE IF err.type = "UnmarshalTypeError"
    THEN (IF err.Field = ""
          THEN Errorf("body contains badly formed JSON type for field %q", err.Field, 0)
          ELSE Errorf("body contains badly formed JSON at character %d", "", err.Offset))
    ELSE IF err.type = "InvalidUnmarshalError"
    THEN Errorf("error unmarshalling JSON: %s", err.text, 0)
    ELSE IF err = ErrUnexpectedEOF
    THEN ErrorsNew("body contains badly formed JSON (unexpected EOF marker)")
    ELSE IF err = EOF
    THEN ErrorsNew("body must not be empty")
    ELSE IF err.text = "json: unknown field"
    THEN Errorf("body contains unknown field %s", err.Field, 0)
    ELSE IF err.text = "http: request body too large"
    THEN Errorf("body must not be larger than %d bytes", "", maxBytes)
    ELSE err

\* the error ReadJSON returns for a body, a target and the Tools record
ReadJSONResult(body, target, tools) ==
    LET maxBytes == MaxBytes(tools.MaxJSONSize)
        err == decodeJSON(LimitedBody(body, maxBytes), target, tools.AllowUnknownFields)
    IN  IF err # NoError THEN handleError(err, maxBytes) ELSE NoError

\* ------------------------------------------------------ ReadJSON, handleError

InitJSON ==
    /\ t \in {[ZeroTools EXCEPT !.MaxJSONSize = m, !.AllowUnknownFields = a] :
                 m \in 0..MaxBody, a \in BOOLEAN}
    /\ dir = "dir"
    /\ AtRest

\* t.ReadJSON(w, r, data) on a request with the given body; target says whether
\* data is a pointer to the caller's struct or (a programming error) no pointer.
\* call.err is ReadJSON's local err, the result of decodeJSON
ReadJSON ==
    /\ pc = "idle"
    /\ \E body \in Bodies, target \in {"data", "nonpointer"} :
        /\ call' = [op |-> "ReadJSON", body |-> body, target |-> target,
                    maxBytes |-> MaxBytes(t.MaxJSONSize),
                    err |-> decodeJSON(LimitedBody(body, MaxBytes(t.MaxJSONSize)),
                                       target, t.AllowUnknownFields)]
        /\ ret' = [kind |-> "error", err |-> ReadJSONResult(body, target, t)]
    /\ pc' = "returned"
    /\ UNCHANGED <<w, fs, t, dir, disk, queue, uploadedFiles, log>>

\* the errors handleError is applied to in this model: every kind its switch
\* names, and two it does not
DecodeErrors ==
    {SyntaxError(o) : o \in 1..MaxBody}
    \cup {UnmarshalTypeError(f, o) : f \in {"", "name", "age"}, o \in 1..MaxBody}
    \cup {UnknownFieldError(f) : f \in {"name", "age"}}
    \cup {InvalidUnmarshalError, ErrUnexpectedEOF, EOF, MaxBytesError,
          SinglePayloadError, ErrorsNew("connection reset by peer")}

\* handleError as a mapping, applied to one error
HandleErrorCall ==
    /\ pc = "idle"
    /\ \E err \in DecodeErrors :
        /\ call' = [op |-> "handleError", err |-> err,
                    maxBytes |-> MaxBytes(t.MaxJSONSize)]
        /\ ret' = [kind |-> "error", err |-> handleError(err, MaxBytes(t.MaxJSONSize))]
    /\ pc' = "returned"
    /\ UNCHANGED <<w, fs, t, dir, disk, queue, uploadedFiles, log>>

NextJSON ==
    \/ ReadJSON
    \/ HandleErrorCall

SpecJSON == InitJSON /\ [][NextJSON]_vars

\* ----------------------------------------------------- claims on the JSON path

ReadJSONReturned == pc = "returned" /\ call.op = "ReadJSON"

\* every character of b before index i is white space
LeadingSpace(b, i) == \A k \in 1..(i - 1) : b[k] = " "

\* every character of b after index j is white space
TrailingSpace(b, j) == \A k \in (j + 1)..Len(b) : b[k] = " "

\* b[i..j] is one JSON document that decodes into the target without an error: an
\* object whose members, if any, are unknown fields that are allowed
GoodDocument(b, i, j, allowUnknown) ==
    /\ i < j
    /\ b[i] = "{"
    /\ b[j] = "}"
    /\ \A k \in (i + 1)..(j - 1) : b[k] = " " \/ (b[k] = "u" /\ allowUnknown)

\* the extents <<i, j>> of a first document of the body that decodes into the
\* target and lies within the byte limit
FirstDocuments ==
    {p \in (1..Len(call.body)) \X (1..Len(call.body)) :
        /\ p[2] <= call.maxBytes
        /\ LeadingSpace(call.body, p[1])
        /\ GoodDocument(call.body, p[1], p[2], t.AllowUnknownFields)}

\* C7: ReadJSON succeeds only when the body holds exactly one JSON document that
\* decodes into the target and, white space aside, nothing but the end of the
\* stream after it; whenever anything else follows the first decoded value (a
\* second document, any other token, or the stream not ending within the limit),
\* ReadJSON fails with "body must only contain a single JSON payload".
C7_SinglePayload ==
    (ReadJSONReturned /\ call.target = "data") =>
        /\ ret.err = NoError =>
              /\ Len(call.body) <= call.maxBytes
              /\ \E p \in FirstDocuments : TrailingSpace(call.body, p[2])
        /\ \A p \in FirstDocuments :
              (Len(call.body) > call.maxBytes \/ ~TrailingSpace(call.body, p[2]))
                 => ret.err = SinglePayloadError

\* C7 witness: two documents in one body, refused as more than a single payload
C7_Witness ==
    /\ ReadJSONReturned
    /\ call.target = "data"
    /\ call.body = <<"{", "}", "{", "}">>
    /\ call.maxBytes >= 4
    /\ ret.err = SinglePayloadError

\* the limit the specification gives ReadJSON
SpecLimit == IF t.MaxJSONSize = 0 THEN 10488832 ELSE t.MaxJSONSize

TooLargeError(limit) == Errorf("body must not be larger than %d bytes", "", limit)

\* C8 as stated: the limit is MaxJSONSize, or 1024 * 10243 when that is 0, and for
\* every body longer than the limit ReadJSON fails with the body-too-large error
\* that carries the limit.
C8_TooLargeAlways ==
    ReadJSONReturned =>
        /\ call.maxBytes = SpecLimit
        /\ Len(call.body) > SpecLimit => ret.err = TooLargeError(SpecLimit)

\* the bytes d within the limit end inside the first JSON value: nothing but white
\* space, or an object not yet closed, or a literal whose end the next byte would
\* show
CutInFirstValue(d) ==
    \/ \A k \in 1..Len(d) : d[k] = " "
    \/ \E i \in 1..Len(d) :
         /\ LeadingSpace(d, i)
         /\ \/ d[i] = "s" /\ i = Len(d)
            \/ d[i] = "{" /\ \A k \in (i + 1)..Len(d) : d[k] \in MemberChars \cup {" "}

\* C8 amended: the limit is MaxJSONSize, or 1024 * 10243 when that is 0; for every
\* body longer than the limit ReadJSON fails; the failure is the body-too-large
\* error that carries the limit exactly when the limit falls inside the first
\* JSON value (otherwise it is the syntax error found, or the decode error of the
\* first value, or the single-payload error).
C8_TooLargeWhenCut ==
    ReadJSONReturned =>
        /\ call.maxBytes = SpecLimit
        /\ Len(call.body) > SpecLimit =>
              /\ ret.err # NoError
              /\ ret.err = TooLargeError(SpecLimit)
                    <=> CutInFirstValue(SubSeq(call.body, 1, SpecLimit))

\* C8 witness: a body cut by the limit inside its first document, refused as too
\* large with the limit in the message
C8_Witness ==
    /\ ReadJSONReturned
    /\ t.MaxJSONSize = 1
    /\ call.body = <<"{", "}">>
    /\ ret.err = TooLargeError(1)

\* C9: handleError maps a type mismatch to the wrong-type-for-field error, which
\* names the field, whatever the field; a syntax error to the
\* malformed-at-offset error; and an error of none of the kinds it lists to
\* itself; it never returns nil.
C9_ErrorKinds ==
    (pc = "returned" /\ call.op \in {"handleError", "ReadJSON"} /\ call.err # NoError) =>
        /\ ret.err # NoError
        /\ call.err.type = "UnmarshalTypeError" =>
              ret.err = Errorf("body contains badly formed JSON type for field %q",
                               call.err.Field, 0)
        /\ call.err.type = "SyntaxError" =>
              ret.err = Errorf("body contains badly formed JSON at character %d",
                               "", call.err.Offset)
        /\ call.err \in {SinglePayloadError, ErrorsNew("connection reset by peer")} =>
              ret.err = call.err

\* ----------------------------------------------------------- PostJSONToRemote

\* http.StatusBadRequest
StatusBadRequest == 400

\* the status codes the remote service answers with in this model
StatusCodes == {200, 201, 204, 301, 400, 404, 500, 503}

\* what the caller passes: a payload json.Marshal can or cannot serialize, a uri
\* http.NewRequest can or cannot parse, and its own client or none
Payloads == {"struct", "map", "channel"}
URIs == {"http://example.com", "https://example.com/api", "%zz"}
Clients == {"default", "supplied"}

\* json.Marshal(data): the error, if any
MarshalError(data) ==
    IF data = "channel" THEN Err("UnsupportedTypeError", "json: unsupported type", "", 0)
    ELSE NoError

\* http.NewRequest(http.MethodPost, uri, body): the error, if any
NewRequestError(uri) ==
    IF uri = "%zz" THEN Err("url.Error", "parse: invalid URL escape", "", 0)
    ELSE NoError

\* what httpClient.Do(req) may come back with: a response with some status and an
\* open body, or a transport error
Exchanges ==
    {[err |-> NoError, StatusCode |-> c] : c \in StatusCodes}
    \cup {[err |-> Err("url.Error", "Post: dial tcp: connection refused", "", 0),
           StatusCode |-> 0]}

\* the three results of PostJSONToRemote; bodyClosed says whether res.Body.Close()
\* has run by the time the function has returned
PostResult(res, statusCode, bodyClosed, status, err) ==
    [kind |-> "response", res |-> res, StatusCode |-> statusCode,
     bodyClosed |-> bodyClosed, status |-> status, err |-> err]

\* t.PostJSONToRemote(uri, data, client...) for the exchange the transport makes:
\* the deferred res.Body.Close() runs as the function returns the response
PostJSONToRemoteResult(uri, data, exchange) ==
    IF MarshalError(data) # NoError
    THEN PostResult(Nil, 0, FALSE, StatusBadRequest, MarshalError(data))
    ELSE IF NewRequestError(uri) # NoError
    THEN PostResult(Nil, 0, FALSE, StatusBadRequest, NewRequestError(uri))
    ELSE IF exchange.err # NoError
    THEN PostResult(Nil, 0, FALSE, StatusBadRequest, exchange.err)
    ELSE PostResult("response", exchange.StatusCode, TRUE, exchange.StatusCode, NoError)

InitPost ==
    /\ t = ZeroTools
    /\ dir = "dir"
    /\ AtRest

PostJSONToRemote ==
    /\ pc = "idle"
    /\ \E uri \in URIs, data \in Payloads, client \in Clients, exchange \in Exchanges :
        /\ call' = [op |-> "PostJSONToRemote", uri |-> uri, data |-> data,
                    client |-> client, exchange |-> exchange]
        /\ ret' = PostJSONToRemoteResult(uri, data, exchange)
    /\ pc' = "returned"
    /\ UNCHANGED <<w, fs, t, dir, disk, queue, uploadedFiles, log>>

NextPost == PostJSONToRemote

SpecPost == InitPost /\ [][NextPost]_vars

\* the transport was reached and answered
TransportSuccess ==
    /\ call.data # "channel"
    /\ call.uri # "%zz"
    /\ call.exchange.err = NoError

\* C10: on transport success PostJSONToRemote returns the response, its status
\* code and a nil error, and the response body has not been closed when it
\* returns; on a serialization, request-construction or transport failure it
\* returns a nil response, status 400 and the error.
C10_BodyLeftOpen ==
    (pc = "returned" /\ call.op = "PostJSONToRemote") =>
        IF TransportSuccess
        THEN /\ ret.res = "response"
             /\ ret.StatusCode = call.exchange.StatusCode
             /\ ret.status = call.exchange.StatusCode
             /\ ret.err = NoError
             /\ ~ret.bodyClosed
        ELSE /\ ret.res = Nil
             /\ ret.status = 400
             /\ ret.err # NoError

\* ------------------------------------------------ WriteJSON and ErrorJSON

\* most characters in the text of an error handed to ErrorJSON
MaxText == 2

\* the characters of such a text: a plain one, and those json.Marshal escapes
TextChars == {"a", "\"", "\\", "<"}

\* the strings of n characters taken from chars
RECURSIVE StringsOfLength(_, _)
StringsOfLength(chars, n) ==
    IF n = 0 THEN {<<>>}
    ELSE {Append(s, c) : s \in StringsOfLength(chars, n - 1), c \in chars}

\* the texts err.Error() may give, all of them valid UTF-8
ErrorTexts == UNION {StringsOfLength(TextChars, n) : n \in 0..MaxText}

\* JSONResponse{Error, Message, Data}; Data is an interface{}: nil, a value
\* json.Marshal can serialize, or one it cannot
NilData == [kind |-> "nil"]
StringData(text) == [kind |-> "string", text |-> text]
ChanData == [kind |-> "chan"]

JSONResponse(error, message, data) ==
    [Error |-> error, Message |-> message, Data |-> data]

\* json.Marshal of a string: the quoted text, with its quotes and backslashes
\* escaped by a backslash and "<" written as the one escape <
RECURSIVE EncodeChars(_)
EncodeChars(s) ==
    IF s = <<>> THEN <<>>
    ELSE LET c == Head(s)
         IN  (IF c = "\"" \/ c = "\\" THEN <<"\\", c>>
              ELSE IF c = "<" THEN <<"\\u003c">>
              ELSE <<c>>) \o EncodeChars(Tail(s))

EncodeString(s) == <<"\"">> \o EncodeChars(s) \o <<"\"">>

\* json.Marshal(data) of a JSONResponse: the members in field order, "data" left
\* out when Data is nil (omitempty); an unsupported Data fails the whole call
Marshal(data) ==
    IF data.Data = ChanData
    THEN [out |-> <<>>, err |-> MarshalError("channel")]
    ELSE [out |-> <<"{", "error", ":", IF data.Error THEN "true" ELSE "false",
                    ",", "message", ":">> \o EncodeString(data.Message)
                  \o (IF data.Data = NilData THEN <<>>
                      ELSE <<",", "data", ":">> \o EncodeString(data.Data.text))
                  \o <<"}">>,
          err |-> NoError]

\* the reading side (what a client's json.Decoder makes of the body): the text
\* of the string literal whose first character is at b[i], and the position
\* after its closing quote
RECURSIVE DecodeChars(_, _)
DecodeChars(b, i) ==
    IF i > Len(b) THEN [text |-> <<>>, next |-> i]
    ELSE IF b[i] = "\"" THEN [text |-> <<>>, next |-> i + 1]
    ELSE IF b[i] = "\\" /\ i < Len(b)
    THEN LET r == DecodeChars(b, i + 2)
         IN  [text |-> <<b[i + 1]>> \o r.text, next |-> r.next]
    ELSE LET r == DecodeChars(b, i + 1)
         IN  [text |-> <<IF b[i] = "\\u003c" THEN "<" ELSE b[i]>> \o r.text,
              next |-> r.next]

\* the body decoded into a JSONResponse: ok says whether it is one object with
\* the members error and message and, possibly, data; hasData whether the
\* member data is in it
DecodeEnvelope(b) ==
    LET bad == [ok |-> FALSE, hasData |-> FALSE, payload |-> JSONResponse(FALSE, <<>>, NilData)]
    IN  IF Len(b) < 10 \/ SubSeq(b, 1, 3) # <<"{", "error", ":">>
           \/ b[4] \notin {"true", "false"}
           \/ SubSeq(b, 5, 8) # <<",", "message", ":", "\"">>
        THEN bad
        ELSE LET m == DecodeChars(b, 9)
             IN  IF m.next = Len(b) /\ b[m.next] = "}"
                 THEN [ok |-> TRUE, hasData |-> FALSE,
                       payload |-> JSONResponse(b[4] = "true", m.text, NilData)]
                 ELSE IF m.next + 4 <= Len(b)
                         /\ SubSeq(b, m.next, m.next + 3) = <<",", "data", ":", "\"">>
                 THEN LET d == DecodeChars(b, m.next + 4)
                      IN  IF d.next = Len(b) /\ b[d.next] = "}"
                          THEN [ok |-> TRUE, hasData |-> TRUE,
                                payload |-> JSONResponse(b[4] = "true", m.text, StringData(d.text))]
                          ELSE bad
                 ELSE bad

\* ---- the http.ResponseWriter: its header map, what WriteHeader sent (the
\* status code and the header map as it was then), the body, and the calls made
\* on it in order

ContentType == "Content-Type"
ApplicationJSON == "application/json"

\* w.Header()[key] = value
HeaderAssign(rw, key, value) ==
    [rw EXCEPT !.Header = (key :> value) @@ rw.Header,
               !.calls = Append(rw.calls, [op |-> "Header", key |-> key, value |-> value])]

\* w.Header().Set(key, value)
HeaderSet(rw, key, value) == HeaderAssign(rw, key, <<value>>)

\* w.WriteHeader(status): the first call sends the status and the headers
WriteHeader(rw, status) ==
    [(IF rw.Code = 0
      THEN [rw EXCEPT !.Code = status, !.Sent = rw.Header]
      ELSE rw)
     EXCEPT !.calls = Append(rw.calls, [op |-> "WriteHeader", status |-> status])]

\* w.Write(out): the bytes reach the body, or the connection fails and none does
Write(rw, out, writeErr) ==
    [rw EXCEPT !.Body = IF writeErr = NoError THEN rw.Body \o out ELSE rw.Body,
               !.calls = Append(rw.calls, [op |-> "Write", out |-> out])]

\* ---- the calls

\* the keys and values of a caller's http.Header; a key assigned to the map
\* directly need not be in canonical form
HeaderKeys == {"X-Test", "Content-Type", "content-type"}
CallerHeader(keys) == [k \in keys |-> IF k = "X-Test" THEN <<"foo">> ELSE <<"text/plain">>]

\* the variadic headers argument: none, one header, or two (the first is used)
HeaderArgs ==
    {<<>>} \cup {<<CallerHeader(keys)>> : keys \in SUBSET HeaderKeys}
           \cup {<<CallerHeader(keys), CallerHeader({"X-Test"})>> : keys \in SUBSET HeaderKeys}

\* the orders in which ranging over a map with these keys may visit them
RangeOrders(keys) ==
    {o \in [1..Cardinality(keys) -> keys] : \A i, j \in DOMAIN o : i # j => o[i] # o[j]}

\* for key, value := range header { w.Header()[key] = value }
RECURSIVE ApplyHeaders(_, _, _)
ApplyHeaders(rw, header, order) ==
    IF order = <<>> THEN rw
    ELSE ApplyHeaders(HeaderAssign(rw, Head(order), header[Head(order)]), header, Tail(order))

\* a faulty variant of WriteJSONResult: the response is written to before the
\* payload is serialized
WriteJSONHeadersFirst(rw, status, data, headers, order, writeErr) ==
    LET a == IF Len(headers) > 0 THEN ApplyHeaders(rw, headers[1], order) ELSE rw
        b == WriteHeader(HeaderSet(a, ContentType, ApplicationJSON), status)
        m == Marshal(data)
    IN  IF m.err # NoError THEN [w |-> b, err |-> m.err]
        ELSE [w |-> Write(b, m.out, writeErr), err |-> writeErr]

\* t.WriteJSON(w, status, data, headers...): the response writer afterwards and
\* the error returned
WriteJSONResult(rw, status, data, headers, order, writeErr) ==
    LET m == Marshal(data)
    IN  IF m.err # NoError THEN [w |-> rw, err |-> m.err]
        ELSE LET a == IF Len(headers) > 0
                      THEN ApplyHeaders(rw, headers[1], order)
                      ELSE rw
                 b == HeaderSet(a, ContentType, ApplicationJSON)
                 c == WriteHeader(b, status)
             IN  [w |-> Write(c, m.out, writeErr), err |-> writeErr]

\* a faulty variant of ErrorJSONResult: the status argument is not looked at
ErrorJSONAlways400(rw, err, status, writeErr) ==
    WriteJSONResult(rw, StatusBadRequest, JSONResponse(TRUE, err.text, NilData),
                    <<>>, <<>>, writeErr)

\* t.ErrorJSON(w, err, status...)
ErrorJSONResult(rw, err, status, writeErr) ==
    LET statusCode == IF Len(status) > 0 THEN status[1] ELSE StatusBadRequest
        payload == JSONResponse(TRUE, err.text, NilData)
    IN  WriteJSONResult(rw, statusCode, payload, <<>>, <<>>, writeErr)

\* w.Write succeeds, or fails because the connection is gone
WriteErrors == {NoError, Err("OpError", "write: broken pipe", "", 0)}

InitWrite ==
    /\ t = ZeroTools
    /\ dir = "dir"
    /\ AtRest

WriteJSON ==
    /\ pc = "idle"
    /\ \E status \in StatusCodes, headers \in HeaderArgs, writeErr \in WriteErrors,
          data \in {JSONResponse(e, m, d) :
                       e \in BOOLEAN, m \in ErrorTexts,
                       d \in {NilData, StringData(<<"a">>), ChanData}} :
        \E order \in RangeOrders(IF headers = <<>> THEN {} ELSE DOMAIN headers[1]) :
            LET r == WriteJSONResult(w, status, data, headers, order, writeErr)
            IN  /\ call' = [op |-> "WriteJSON", status |-> status, data |-> data,
                            headers |-> headers, order |-> order, writeErr |-> writeErr]
                /\ w' = r.w
                /\ ret' = [kind |-> "error", err |-> r.err]
    /\ pc' = "returned"
    /\ UNCHANGED <<t, dir, disk, queue, uploadedFiles, log, fs>>

ErrorJSON ==
    /\ pc = "idle"
    /\ \E text \in ErrorTexts, status \in {<<>>, <<503>>, <<404, 500>>},
          writeErr \in WriteErrors :
        LET r == ErrorJSONResult(w, ErrorsNew(text), status, writeErr)
        IN  /\ call' = [op |-> "ErrorJSON", err |-> ErrorsNew(text), status |-> status,
                        writeErr |-> writeErr]
            /\ w' = r.w
            /\ ret' = [kind |-> "error", err |-> r.err]
    /\ pc' = "returned"
    /\ UNCHANGED <<t, dir, disk, queue, uploadedFiles, log, fs>>

NextWrite == WriteJSON \/ ErrorJSON

SpecWrite == InitWrite /\ [][NextWrite]_vars

WriteJSONReturned == pc = "returned" /\ call.op = "WriteJSON"

\* the header WriteJSON was asked to apply: the first of the variadic argument
FirstHeader == IF call.headers = <<>> THEN [k \in {} |-> <<>>] ELSE call.headers[1]

\* C11: WriteJSON serializes before it touches the response. When json.Marshal
\* fails it returns that error and the response writer is as it was: no header
\* applied, no Content-Type, no status, no body. When it succeeds the calls on
\* the response writer are, in this order: one assignment per caller header,
\* Content-Type set to application/json, WriteHeader(status), Write(out); so the
\* headers sent carry the caller's entries, with Content-Type application/json
\* in place of the caller's, and the error returned is that of Write.
C11_MarshalBeforeWrite ==
    WriteJSONReturned =>
        LET m == Marshal(call.data)
            n == Len(call.order)
        IN  IF m.err # NoError
            THEN /\ ret.err = m.err
                 /\ w = NewRecorder
            ELSE /\ Len(w.calls) = n + 3
                 /\ {call.order[i] : i \in 1..n} = DOMAIN FirstHeader
                 /\ \A i \in 1..n :
                        w.calls[i] = [op |-> "Header", key |-> call.order[i],
                                      value |-> FirstHeader[call.order[i]]]
                 /\ w.calls[n + 1] = [op |-> "Header", key |-> ContentType,
                                      value |-> <<ApplicationJSON>>]
                 /\ w.calls[n + 2] = [op |-> "WriteHeader", status |-> call.status]
                 /\ w.calls[n + 3] = [op |-> "Write", out |-> m.out]
                 /\ w.Code = call.status
                 /\ DOMAIN w.Sent = DOMAIN FirstHeader \cup {ContentType}
                 /\ w.Sent[ContentType] = <<ApplicationJSON>>
                 /\ \A k \in DOMAIN FirstHeader \ {ContentType} : w.Sent[k] = FirstHeader[k]
                 /\ ret.err = call.writeErr
                 /\ call.writeErr = NoError => w.Body = m.out

\* a payload was serialized and written over a caller's own Content-Type
C11_Witness ==
    /\ WriteJSONReturned
    /\ Marshal(call.data).err = NoError
    /\ {"X-Test", ContentType} \subseteq DOMAIN FirstHeader
    /\ w.Sent[ContentType] = <<ApplicationJSON>>
    /\ w.Body = Marshal(call.data).out

ErrorJSONReturned == pc = "returned" /\ call.op = "ErrorJSON"

\* C12: the response ErrorJSON(w, err, status...) writes has status 400 when no
\* status is given and the first given status otherwise, and its body decodes to
\* a JSONResponse with Error = true and Message = err.Error() and has no member
\* data.
C12_ErrorEnvelope ==
    ErrorJSONReturned =>
        /\ w.Code = IF call.status = <<>> THEN 400 ELSE call.status[1]
        /\ w.Sent[ContentType] = <<ApplicationJSON>>
        /\ call.writeErr = NoError =>
              LET d == DecodeEnvelope(w.Body)
              IN  /\ d.ok
                  /\ d.payload.Error
                  /\ d.payload.Message = call.err.text
                  /\ ~d.hasData
                  /\ d.payload.Data = NilData

\* an error whose text needs escaping was sent with the first of two statuses
C12_Witness ==
    /\ ErrorJSONReturned
    /\ Len(call.status) = 2
    /\ w.Code = call.status[1]
    /\ call.writeErr = NoError
    /\ \E i \in DOMAIN call.err.text : call.err.text[i] \in {"\"", "\\", "<"}
    /\ DecodeEnvelope(w.Body).payload.Message = call.err.text

\* ------------------------------------------------ RandomString called directly

\* longest string RandomString is asked for
MaxLength == 2
\* the bit length of the primes drawn, in place of the 64 bits the code passes
\* (len(r)); the modulus y stays len(r) = 64
PrimeBits == 12

IsPrime(n) == n > 1 /\ \A d \in 2..(n - 1) : d * d > n \/ n % d # 0

\* rand.Prime(rand.Reader, bits): a prime of exactly that many bits, the top two
\* of them set
Primes(bits) == {p \in (3 * 2^(bits - 2))..(2^bits - 1) : IsPrime(p)}

\* x % y for the primes drawn: x = p.Uint64(), y = uint64(len(r))
PrimeResidues == {p % Len(randomStringSource) : p \in Primes(PrimeBits)}

\* the draws one RandomString(length) call makes, each prime stood for by x % y
Draws(length) == [1..length -> PrimeResidues]

InitRandom ==
    /\ t = ZeroTools
    /\ dir = "dir"
    /\ AtRest

\* t.RandomString(length); make([]rune, length) panics on a negative length
RandomString ==
    /\ pc = "idle"
    /\ \E length \in (-1)..MaxLength :
        IF length < 0
        THEN /\ call' = [op |-> "RandomString", length |-> length, primes |-> <<>>]
             /\ ret' = NoRet
             /\ pc' = "panic"
        ELSE \E primes \in Draws(length) :
                /\ call' = [op |-> "RandomString", length |-> length, primes |-> primes]
                /\ ret' = [kind |-> "string", s |-> RandomStringOf(primes)]
                /\ pc' = "returned"
    /\ UNCHANGED <<t, dir, disk, queue, uploadedFiles, log, w, fs>>

NextRandom == RandomString

SpecRandom == InitRandom /\ [][NextRandom]_vars

RandomStringReturned == pc = "returned" /\ call.op = "RandomString"

Digits == {"0", "1", "2", "3", "4", "5", "6", "7", "8", "9"}

\* a-z, A-Z, 0-9, "_" and "+"
Alphabet64 ==
    {LowerChars[i] : i \in DOMAIN LowerChars} \cup {UpperChars[i] : i \in DOMAIN UpperChars}
        \cup Digits \cup {"_", "+"}

\* C13: for every length n >= 0, RandomString(n) returns a string of exactly n
\* characters (the empty string for n = 0), each of them one of the 64
\* characters a-z, A-Z, 0-9, "_", "+".
C13_LengthAndAlphabet ==
    /\ Cardinality(Alphabet64) = 64
    /\ (call.op = "RandomString" /\ call.length >= 0) =>
          /\ pc = "returned"
          /\ Len(ret.s) = call.length
          /\ call.length = 0 => ret.s = <<>>
          /\ \A i \in 1..Len(ret.s) : ret.s[i] \in Alphabet64

\* a string of the greatest length, of differing characters, was returned
C13_Witness ==
    /\ RandomStringReturned
    /\ call.length = MaxLength
    /\ Len(ret.s) = MaxLength
    /\ ret.s[1] # ret.s[2]

\* the characters RandomString can put at a position
PossibleRunes == {RandomStringOf(<<x>>)[1] : x \in PrimeResidues}

\* C18: at every position of the output of RandomString each of the 64
\* characters of randomStringSource is a possible result: the index x % y, x a
\* random prime of the bit length passed to rand.Prime, takes every value 0..63.
C18_WholeAlphabet ==
    (RandomStringReturned /\ call.length > 0) =>
        /\ \A k \in 0..(Len(randomStringSource) - 1) : k \in PrimeResidues
        /\ \A i \in 1..Len(ret.s) :
              PossibleRunes = {randomStringSource[k] : k \in DOMAIN randomStringSource}

\* C18, what the code does: a prime of more than one bit is odd, so the index
\* is odd, and the 32 odd indexes are the ones taken; the characters at the
\* even indexes (a, c, e, ...) are never produced
C18_OddIndexes ==
    RandomStringReturned =>
        /\ PrimeResidues = {k \in 0..(Len(randomStringSource) - 1) : k % 2 = 1}
        /\ \A i \in 1..Len(ret.s) : ret.s[i] \in PossibleRunes
        /\ \A i \in 1..Len(ret.s) : ret.s[i] # "a"

\* ------------------------------------------------------------------ Slugify

\* most characters in an input of Slugify
MaxSlug == 4

\* the characters of an input: letters of both cases, a digit, the space, the
\* hyphen, a tab and a punctuation mark
SlugChars == {"a", "B", "1", " ", "-", "\t", "&"}

SlugInputs == UNION {StringsOfLength(SlugChars, n) : n \in 0..MaxSlug}

\* strings.Trim(s, cutset) for a cutset of one character
RECURSIVE TrimLeft(_, _)
TrimLeft(s, c) == IF s # <<>> /\ Head(s) = c THEN TrimLeft(Tail(s), c) ELSE s

RECURSIVE TrimRight(_, _)
TrimRight(s, c) ==
    IF s # <<>> /\ s[Len(s)] = c THEN TrimRight(SubSeq(s, 1, Len(s) - 1), c) ELSE s

Trim(s, c) == TrimRight(TrimLeft(s, c), c)

\* strings.ToLower
ToLower(s) ==
    [i \in DOMAIN s |->
        IF \E k \in DOMAIN UpperChars : UpperChars[k] = s[i]
        THEN LowerChars[CHOOSE k \in DOMAIN UpperChars : UpperChars[k] = s[i]]
        ELSE s[i]]

\* the class [a-z\d]
LowerOrDigit(c) ==
    \/ \E i \in DOMAIN LowerChars : LowerChars[i] = c
    \/ c \in {"0", "1", "2", "3", "4", "5", "6", "7", "8", "9"}

\* a faulty variant of ReplaceAllString: the pattern without its "+", a hyphen for
\* every character outside the class
RECURSIVE ReplaceEachChar(_, _)
ReplaceEachChar(s, repl) ==
    IF s = <<>> THEN <<>>
    ELSE (IF LowerOrDigit(Head(s)) THEN <<Head(s)>> ELSE <<repl>>)
         \o ReplaceEachChar(Tail(s), repl)

\* regexp.MustCompile(`[^a-z\d]+`).ReplaceAllString(s, repl): the matches are
\* taken leftmost and longest
RECURSIVE ReplaceAllString(_, _)
ReplaceAllString(s, repl) ==
    IF s = <<>> THEN <<>>
    ELSE IF LowerOrDigit(Head(s)) THEN <<Head(s)>> \o ReplaceAllString(Tail(s), repl)
    ELSE LET rest == Tail(s)
             next == IF \E i \in DOMAIN rest : LowerOrDigit(rest[i])
                     THEN CHOOSE i \in DOMAIN rest :
                              /\ LowerOrDigit(rest[i])
                              /\ \A j \in 1..(i - 1) : ~LowerOrDigit(rest[j])
                     ELSE Len(rest) + 1
         IN  <<repl>> \o ReplaceAllString(SubSeq(rest, next, Len(rest)), repl)

\* t.Slugify(s): the slug and the error
SlugifyResult(s) ==
    IF Trim(s, " ") = <<>>
    THEN [slug |-> <<>>, err |-> ErrorsNew("empty string not permitted")]
    ELSE LET slug == Trim(ReplaceAllString(ToLower(s), "-"), "-")
         IN  IF Len(slug) = 0
             THEN [slug |-> <<>>, err |-> ErrorsNew("slugified string is empty")]
             ELSE [slug |-> slug, err |-> NoError]

InitSlug ==
    /\ t = ZeroTools
    /\ dir = "dir"
    /\ AtRest

Slugify ==
    /\ pc = "idle"
    /\ \E s \in SlugInputs :
        /\ call' = [op |-> "Slugify", s |-> s]
        /\ ret' = [kind |-> "slug"] @@ SlugifyResult(s)
    /\ pc' = "returned"
    /\ UNCHANGED <<t, dir, disk, queue, uploadedFiles, log, w, fs>>

NextSlug == Slugify

SpecSlug == InitSlug /\ [][NextSlug]_vars

SlugifyReturned == pc = "returned" /\ call.op = "Slugify"

\* the lower-cased text l from position i on, each maximal run of characters
\* outside [a-z0-9] that lies between two characters of the class written as one
\* hyphen, and the runs at the two ends dropped; started says whether a
\* character of the class has been written
RECURSIVE JoinedWords(_, _, _)
JoinedWords(l, i, started) ==
    IF i > Len(l) THEN <<>>
    ELSE IF ~LowerOrDigit(l[i]) THEN JoinedWords(l, i + 1, started)
    ELSE (IF started /\ ~LowerOrDigit(l[i - 1]) THEN <<"-", l[i]>> ELSE <<l[i]>>)
         \o JoinedWords(l, i + 1, TRUE)

\* C14: Slugify fails with "empty string not permitted" when the input trimmed
\* of spaces is empty, fails with "slugified string is empty" when the
\* lower-cased input has no character of [a-z0-9], and otherwise returns the
\* lower-cased input with every maximal run of characters outside [a-z0-9]
\* replaced by one hyphen and the hyphens at its two ends removed: a slug that
\* is not empty, has only characters of [a-z0-9-], no two hyphens in a row, and
\* no hyphen first or last.
C14_Slugify ==
    SlugifyReturned =>
        LET s == call.s
            l == ToLower(s)
            slug == ret.slug
        IN  IF \A i \in DOMAIN s : s[i] = " "
            THEN ret.err = ErrorsNew("empty string not permitted") /\ slug = <<>>
            ELSE IF \A i \in DOMAIN l : ~LowerOrDigit(l[i])
            THEN ret.err = ErrorsNew("slugified string is empty") /\ slug = <<>>
            ELSE /\ ret.err = NoError
                 /\ slug = JoinedWords(l, 1, FALSE)
                 /\ slug # <<>>
                 /\ \A i \in DOMAIN slug : LowerOrDigit(slug[i]) \/ slug[i] = "-"
                 /\ \A i \in 1..(Len(slug) - 1) : ~(slug[i] = "-" /\ slug[i + 1] = "-")
                 /\ slug[1] # "-"
                 /\ slug[Len(slug)] # "-"

\* an input with an upper-case letter and a run of two characters outside the
\* class was made a slug with one hyphen
C14_Witness ==
    /\ SlugifyReturned
    /\ call.s = <<"B", " ", "&", "1">>
    /\ ret.err = NoError
    /\ ret.slug = <<"b", "-", "1">>

\* ------------------------------------------- CreateDirIfNotExist called directly

\* the number of components of the path, as in "./foo/bar/baz": ".", "foo", "bar", "baz"
PathDepth == 4
\* most calls of CreateDirIfNotExist in one behaviour
MaxCalls == 2

\* What a component of the path is on disk: nothing ("absent"), a directory
\* ("dir"), a directory the process may not search ("noaccess"), or a regular
\* file ("file").
IsDir(kind) == kind \in {"dir", "noaccess"}

\* the states of the path a filesystem can be in: nothing exists below a missing
\* entry or a regular file
Trees ==
    {tree \in [1..PathDepth -> {"absent", "dir", "noaccess", "file"}] :
        \A k \in 1..(PathDepth - 1) :
            tree[k] \in {"absent", "file"} => tree[k + 1] = "absent"}

ENOENT == Err("PathError", "no such file or directory", "", 0)
ENOTDIR == Err("PathError", "not a directory", "", 0)
EACCES == Err("PathError", "permission denied", "", 0)

\* os.Stat(dir): the error of the first component that stops the walk
RECURSIVE StatFrom(_, _)
StatFrom(tree, k) ==
    IF tree[k] = "absent" THEN ENOENT
    ELSE IF k = Len(tree) THEN NoError
    ELSE IF tree[k] = "file" THEN ENOTDIR
    ELSE IF tree[k] = "noaccess" THEN EACCES
    ELSE StatFrom(tree, k + 1)

Stat(tree) == StatFrom(tree, 1)

\* os.IsNotExist(err)
IsNotExist(err) == err = ENOENT

\* the first component of the path that does not exist
FirstAbsent(tree) ==
    CHOOSE k \in DOMAIN tree : tree[k] = "absent" /\ \A j \in 1..(k - 1) : tree[j] # "absent"

\* os.MkdirAll(dir, os.ModePerm) on a path os.Stat found missing: the missing
\* components are made from the first on; failAt is the component whose Mkdir the
\* system refuses (0: none), the ones before it having been made
MkdirAll(tree, failAt) ==
    LET first == FirstAbsent(tree)
        last == IF failAt = 0 THEN Len(tree) ELSE failAt - 1
    IN  [tree |-> [k \in DOMAIN tree |-> IF first <= k /\ k <= last THEN "dir" ELSE tree[k]],
         err |-> IF failAt = 0 THEN NoError ELSE EACCES]

\* the components whose Mkdir may be refused in a call on this path
FailPoints(tree) ==
    {0} \cup (IF IsNotExist(Stat(tree)) THEN FirstAbsent(tree)..Len(tree) ELSE {})

\* a faulty variant of CreateDirIfNotExistResult: os.Mkdir with no look at
\* what is there
CreateDirNoStat(tree, failAt) ==
    IF \E k \in DOMAIN tree : tree[k] = "absent"
    THEN MkdirAll(tree, IF failAt \in FailPoints(tree) THEN failAt ELSE 0)
    ELSE [tree |-> tree, err |-> Err("PathError", "file exists", "", 0)]

\* t.CreateDirIfNotExist(dir): the path afterwards and the error
CreateDirIfNotExistResult(tree, failAt) ==
    IF IsNotExist(Stat(tree))
    THEN MkdirAll(tree, failAt)
    ELSE [tree |-> tree, err |-> NoError]

InitDir ==
    /\ t = ZeroTools
    /\ dir = "dir"
    /\ pc = "idle"
    /\ call = NoCall
    /\ ret = NoRet
    /\ disk = EmptyDisk
    /\ queue = <<>>
    /\ uploadedFiles = <<>>
    /\ log = <<>>
    /\ w = NewRecorder
    /\ fs \in Trees

\* one call of CreateDirIfNotExist on the path; log keeps, of each call, the path
\* before and after it, the error, and whether a Mkdir was refused
CreateDirIfNotExist ==
    /\ pc \in {"idle", "returned"}
    /\ Len(log) < MaxCalls
    /\ \E failAt \in FailPoints(fs) :
        LET r == CreateDirIfNotExistResult(fs, failAt)
        IN  /\ call' = [op |-> "CreateDirIfNotExist", failAt |-> failAt]
            /\ fs' = r.tree
            /\ ret' = [kind |-> "error", err |-> r.err]
            /\ log' = Append(log, [before |-> fs, after |-> r.tree, err |-> r.err,
                                   refused |-> failAt # 0])
    /\ pc' = "returned"
    /\ UNCHANGED <<t, dir, disk, queue, uploadedFiles, w>>

NextDir == CreateDirIfNotExist

SpecDir == InitDir /\ [][NextDir]_vars

\* every component of the path is a directory
AllDirs(tree) == \A k \in DOMAIN tree : IsDir(tree[k])

\* every component of the path is missing or a directory the process may search
Creatable(tree) == \A k \in DOMAIN tree : tree[k] \in {"absent", "dir"}

\* C15: CreateDirIfNotExist is idempotent. On a path whose components are
\* missing or directories, and with no Mkdir refused by the system, two calls
\* both return no error, the first leaves the path and all its ancestors
\* directories (those that were there untouched), and the second changes
\* nothing. And whatever was there before, a call that follows one that
\* returned no error returns no error and changes nothing.
C15_Idempotent ==
    Len(log) >= 2 =>
        /\ log[1].err = NoError =>
              /\ log[2].err = NoError
              /\ log[2].after = log[1].after
        /\ (Creatable(log[1].before) /\ ~log[1].refused) =>
              /\ log[1].err = NoError
              /\ log[2].err = NoError
              /\ AllDirs(log[1].after)
              /\ \A k \in 1..PathDepth :
                    log[1].before[k] # "absent" => log[1].after[k] = log[1].before[k]
              /\ fs = log[1].after

\* the path and an ancestor were missing, the first call made them, and a second
\* call has returned
C15_Witness ==
    /\ Len(log) = 2
    /\ log[1].before[PathDepth] = "absent"
    /\ log[1].before[PathDepth - 1] = "absent"
    /\ log[1].err = NoError
    /\ AllDirs(log[1].after)
    /\ log[2].err = NoError
    /\ fs = log[1].after

\* C20: whenever CreateDirIfNotExist(path) returns no error, path is a directory
\* afterwards (and so is each of its ancestors), whatever was there before: also
\* when path was a regular file, and when os.Stat failed for another reason than
\* the path not existing.
C20_DirectoryAfterNil ==
    (pc = "returned" /\ call.op = "CreateDirIfNotExist" /\ ret.err = NoError) =>
        AllDirs(fs)

\* C20, what the code guarantees: after a nil return the path is a directory
\* when its components were missing or searchable directories before
C20_CreatablePaths ==
    \A i \in DOMAIN log :
        (log[i].err = NoError /\ Creatable(log[i].before)) => AllDirs(log[i].after)

\* ---------------------------------- two calls at once on one shared Tools

\* The two goroutines that share t. Here pc, call and ret hold one entry per
\* goroutine, and log is the set of the accesses made to the fields of t: which
\* goroutine, which field, read or write. Nothing orders the accesses of one
\* goroutine with those of the other.
Procs == {"g1", "g2"}

Access(p, field, kind) == [proc |-> p, field |-> field, kind |-> kind]

\* a faulty variant of NeedsDefault: the list is set to the defaults on every call
NeedsDefaultAlways(allowed) == TRUE

\* len(t.AllowedFileTypes) == 0
NeedsDefault(allowed) == Len(allowed) = 0

\* What goroutine p may find when it reads a field: the value in memory, or,
\* when the other goroutine has written the field and p has not, the zero value
\* there was before (the read is not ordered after that write)
Seen(p, field, zero) ==
    {t[field]}
    \cup (IF (\E q \in Procs \ {p} : Access(q, field, "write") \in log)
             /\ Access(p, field, "write") \notin log
          THEN {zero} ELSE {})

\* the two goroutines are handed a Tools record with each field set or not
InitRace ==
    /\ t \in {[MaxFileSize |-> m, AllowedFileTypes |-> a, MaxJSONSize |-> j,
                AllowUnknownFields |-> FALSE] :
                  m \in {0, DefaultMaxFileSize}, a \in {<<>>, <<ImagePng>>}, j \in {0, 4}}
    /\ pc = [p \in Procs |-> "idle"]
    /\ call = [p \in Procs |-> NoCall]
    /\ ret = [p \in Procs |-> NoRet]
    /\ log = {}
    /\ dir = "dir"
    /\ disk = EmptyDisk
    /\ queue = <<>>
    /\ uploadedFiles = <<>>
    /\ w = NewRecorder
    /\ fs = <<>>

\* goroutine p goes from one statement to the next, having made an access
Goto(p, next, access) ==
    /\ pc' = [pc EXCEPT ![p] = next]
    /\ log' = log \cup {access}
    /\ UNCHANGED <<dir, disk, queue, uploadedFiles, w, fs>>

\* goroutine p calls CheckFileType, UploadFiles (on a request with one part) or
\* ReadJSON
StartCall(p) ==
    /\ pc[p] = "idle"
    /\ \E op \in {"CheckFileType", "UploadFiles", "ReadJSON"}, fileType \in {ImagePng, TextPlainUtf8} :
        /\ call' = [call EXCEPT ![p] = [op |-> op, fileType |-> fileType, zero |-> FALSE]]
        /\ pc' = [pc EXCEPT ![p] = CASE op = "CheckFileType" -> "lenRead"
                                     [] op = "UploadFiles" -> "maxRead"
                                     [] op = "ReadJSON" -> "jsonRead"]
    /\ UNCHANGED <<t, ret, log, dir, disk, queue, uploadedFiles, w, fs>>

\* UploadFiles: if t.MaxFileSize == 0
MaxRead(p) ==
    /\ pc[p] = "maxRead"
    /\ \E v \in Seen(p, "MaxFileSize", 0) :
        /\ call' = [call EXCEPT ![p].zero = (v = 0)]
        /\ Goto(p, IF v = 0 THEN "maxWrite" ELSE "parse", Access(p, "MaxFileSize", "read"))
    /\ UNCHANGED <<t, ret>>

\* UploadFiles: t.MaxFileSize = 1024 * 1024 * 1024
MaxWrite(p) ==
    /\ pc[p] = "maxWrite"
    /\ t' = [t EXCEPT !.MaxFileSize = DefaultMaxFileSize]
    /\ Goto(p, "parse", Access(p, "MaxFileSize", "write"))
    /\ UNCHANGED <<call, ret>>

\* UploadFiles: r.ParseMultipartForm(t.MaxFileSize), and on to HandleFile, which
\* calls CheckFileType on the type it sniffed
Parse(p) ==
    /\ pc[p] = "parse"
    /\ Goto(p, "lenRead", Access(p, "MaxFileSize", "read"))
    /\ UNCHANGED <<t, call, ret>>

\* CheckFileType: if len(t.AllowedFileTypes) == 0
LenRead(p) ==
    /\ pc[p] = "lenRead"
    /\ \E v \in Seen(p, "AllowedFileTypes", <<>>) :
        /\ call' = [call EXCEPT ![p].zero = NeedsDefault(v)]
        /\ Goto(p, IF NeedsDefault(v) THEN "typesWrite" ELSE "range",
                Access(p, "AllowedFileTypes", "read"))
    /\ UNCHANGED <<t, ret>>

\* CheckFileType: t.AllowedFileTypes = []string{...}
TypesWrite(p) ==
    /\ pc[p] = "typesWrite"
    /\ t' = [t EXCEPT !.AllowedFileTypes = DefaultAllowedFileTypes]
    /\ Goto(p, "range", Access(p, "AllowedFileTypes", "write"))
    /\ UNCHANGED <<call, ret>>

\* CheckFileType: the loop over t.AllowedFileTypes, and the return
Range(p) ==
    /\ pc[p] = "range"
    /\ \E v \in Seen(p, "AllowedFileTypes", <<>>) :
        /\ ret' = [ret EXCEPT ![p] =
                      [kind |-> "bool",
                       ok |-> \E i \in 1..Len(v) : EqualFold(call[p].fileType, v[i])]]
        /\ Goto(p, "returned", Access(p, "AllowedFileTypes", "read"))
    /\ UNCHANGED <<t, call>>

\* ReadJSON: maxBytes := int64(1024 * 10243); if t.MaxJSONSize != 0 { maxBytes = t.MaxJSONSize }
JSONRead(p) ==
    /\ pc[p] = "jsonRead"
    /\ ret' = [ret EXCEPT ![p] = [kind |-> "maxBytes", maxBytes |-> MaxBytes(t.MaxJSONSize)]]
    /\ Goto(p, "unknownRead", Access(p, "MaxJSONSize", "read"))
    /\ UNCHANGED <<t, call>>

\* decodeJSON: if !t.AllowUnknownFields, and the return of ReadJSON
UnknownRead(p) ==
    /\ pc[p] = "unknownRead"
    /\ Goto(p, "returned", Access(p, "AllowUnknownFields", "read"))
    /\ UNCHANGED <<t, call, ret>>

NextRace ==
    \E p \in Procs :
        \/ StartCall(p)
        \/ MaxRead(p)
        \/ MaxWrite(p)
        \/ Parse(p)
        \/ LenRead(p)
        \/ TypesWrite(p)
        \/ Range(p)
        \/ JSONRead(p)
        \/ UnknownRead(p)

SpecRace == InitRace /\ [][NextRace]_vars

\* two accesses to one field by different goroutines, one of them a write
Race ==
    \E a, b \in log :
        /\ a.proc # b.proc
        /\ a.field = b.field
        /\ "write" \in {a.kind, b.kind}

Writes(accesses) == {a \in accesses : a.kind = "write"}

\* MaxFileSize and AllowedFileTypes are both set
Populated(tools) == tools.MaxFileSize # 0 /\ tools.AllowedFileTypes # <<>>

\* C19: the only writes to a Tools record are the lazy defaults: MaxFileSize set
\* to 1 GiB by UploadFiles when it found 0, and AllowedFileTypes set to the five
\* defaults by the type check when it found the list empty; MaxJSONSize is never
\* written (ReadJSON keeps its default in a local). So when both fields were
\* set before the record was shared, no call writes it in any interleaving;
\* with the fields unset, two concurrent calls reach a state in which one has
\* written a field the other reads or writes, nothing ordering the two
\* accesses (the state of C19_Witness).
C19_OnlyLazyDefaults ==
    [][ /\ t'.MaxJSONSize = t.MaxJSONSize
        /\ t'.AllowUnknownFields = t.AllowUnknownFields
        /\ t' # t => Writes(log' \ log) # {}
        /\ \A a \in Writes(log' \ log) :
              \/ /\ a.field = "MaxFileSize"
                 /\ call[a.proc].op = "UploadFiles"
                 /\ call[a.proc].zero
                 /\ t' = [t EXCEPT !.MaxFileSize = DefaultMaxFileSize]
              \/ /\ a.field = "AllowedFileTypes"
                 /\ call[a.proc].op \in {"CheckFileType", "UploadFiles"}
                 /\ call[a.proc].zero
                 /\ t' = [t EXCEPT !.AllowedFileTypes = DefaultAllowedFileTypes]
        /\ (Populated(t) /\ Writes(log) = {}) => (Writes(log') = {} /\ t' = t)
      ]_vars

\* both goroutines have set AllowedFileTypes, and one has set MaxFileSize that
\* the other has read or set
C19_Witness ==
    /\ Race
    /\ \A p \in Procs : Access(p, "AllowedFileTypes", "write") \in log
    /\ \E p \in Procs :
          /\ Access(p, "MaxFileSize", "write") \in log
          /\ \E a \in log : a.proc # p /\ a.field = "MaxFileSize"

====
